---- MODULE Spec2Model ----
(***************************************************************************)
(* The node-classification scripts citation_arma.py and citation_gat.py:   *)
(* load the dataset and its three masks, build and compile a two-layer     *)
(* model, fit it with a validation loader and an EarlyStopping callback    *)
(* (patience, restore_best_weights=True), then evaluate once on the test   *)
(* loader.  Both scripts share the train / evaluate section line for line. *)
(*                                                                         *)
(* Numbers are scaled down: the model parameters are one integer `weights`,*)
(* the forward pass predicts class `weights` for every node, and the       *)
(* per-node loss is the distance of the prediction from the node's label.  *)
(* The optimizer step is any change of `weights` at all.                   *)
(***************************************************************************)
EXTENDS Integers, Sequences, FiniteSets, TLC

VARIABLES run, dataset, twin, dataset2, layer

vars == <<run, dataset, twin, dataset2, layer>>

\* ------------------------------------------------------------------ bounds

\* dataset.N, the number of nodes (2708 in cora), scaled down.
N == 3
\* dataset.n_out, the number of classes (7 in cora), scaled down.
n_out == 2
\* epochs = 20000, scaled down.
epochs == 4
\* patience = 100, scaled down.
patience == 2
\* The model parameters range over 0..MaxWeight.
MaxWeight == 2

Node == 1..N
Params == 0..MaxWeight

\* Python's None.
None == -1

\* np.Inf, above every loss the model can produce.
Inf == N * (MaxWeight + n_out) + 1

\* ----------------------------------------------------------------- dataset

\* Mask vectors over the nodes, 1 = in the mask.
MaskVectors == [Node -> {0, 1}]

ZeroMask == [i \in Node |-> 0]

Disjoint(a, b) == \A i \in Node : a[i] * b[i] = 0

\* Citation('cora'): the three masks select pairwise disjoint sets of nodes;
\* some nodes may be in none of them.
Datasets ==
    { d \in [mask_tr : MaskVectors, mask_va : MaskVectors, mask_te : MaskVectors] :
        /\ Disjoint(d.mask_tr, d.mask_va)
        /\ Disjoint(d.mask_tr, d.mask_te)
        /\ Disjoint(d.mask_va, d.mask_te) }

\* The label of node i.
Y(i) == i % n_out

\* ------------------------------------------------------------ loss, metric

Abs(x) == IF x < 0 THEN -x ELSE x

\* loss='categorical_crossentropy' on one node: 0 when the prediction is the
\* node's label, growing with the distance from it.
CrossEntropy(w, i) == Abs(w - Y(i))

\* The per-node losses of the full-batch forward pass.
PerNodeLoss(w) == [i \in Node |-> CrossEntropy(w, i)]

RECURSIVE SumTo(_, _, _)
SumTo(n, sw, l) == IF n = 0 THEN 0 ELSE sw[n] * l[n] + SumTo(n - 1, sw, l)

Cardinal(sw) == SumTo(N, sw, [i \in Node |-> 1])

\* A plausible slip: the weighted sum averaged over the mask's cardinality
\* (0 / 0, not a number, under the all-zero mask: here -1).
WeightedLossOverMask(sw, l) ==
    IF Cardinal(sw) = 0 THEN 0 - 1 ELSE (N * SumTo(N, sw, l)) \div Cardinal(sw)

\* The compiled loss under sample weights sw: each node's loss times its
\* weight, summed and divided by the batch size N.  Kept in units of 1/N.
WeightedLoss(sw, l) == (N * SumTo(N, sw, l)) \div N

\* weighted_metrics=['acc']: the weighted share of correct nodes, in percent,
\* 0 when the weights sum to 0.
WeightedAcc(sw, w) ==
    IF Cardinal(sw) = 0 THEN 0
    ELSE (100 * SumTo(N, sw, [i \in Node |-> IF w = Y(i) THEN 1 ELSE 0]))
             \div Cardinal(sw)

\* ----------------------------------------------------------------- loaders

\* A plausible slip: the training loader built from the test mask.
loader_tr_test(d) == d.mask_te

\* loader_tr = SingleLoader(dataset, sample_weights=mask_tr)
loader_tr(d) == d.mask_tr

\* A plausible slip: the validation loader built from the test mask.
loader_va_test(d) == d.mask_te

\* loader_va = SingleLoader(dataset, sample_weights=mask_va)
loader_va(d) == d.mask_va

\* A plausible slip: the test loader built from the validation mask.
loader_te_val(d) == d.mask_va

\* loader_te = SingleLoader(dataset, sample_weights=mask_te)
loader_te(d) == d.mask_te

\* ---------------------------------------------------------- early stopping

\* A plausible slip: an equal loss counted as an improvement.
monitor_op_leq(current, best) == current <= best

\* EarlyStopping monitors val_loss: an improvement is a strictly smaller loss.
monitor_op(current, best) == current < best

\* A plausible slip: one epoch more than patience.
ShouldStopLate(wait) == wait > patience

\* EarlyStopping(patience=patience): stop once `wait` reaches patience.
ShouldStop(wait) == wait >= patience

\* A plausible slip: the loop running one epoch past the limit.
EpochLimitLate(epoch) == epoch >= epochs + 1

\* fit(..., epochs=epochs): the loop ends after `epochs` epochs.
EpochLimit(epoch) == epoch >= epochs

\* ------------------------------------------------------------ the run's steps

\* The state after the model is built and compiled, with initial weights w.
Compiled(w) ==
    [ phase |-> "Initialized", pc |-> "-", epoch |-> 0, weights |-> w,
      wait |-> 0, best |-> Inf, best_weights |-> None, stop_training |-> FALSE,
      val_loss |-> None, history |-> <<>>, snapshots |-> <<>>,
      eval_results |-> <<>>, n_eval |-> 0 ]

\* model.fit begins: EarlyStopping.on_train_begin resets the callback.
on_train_begin(r) ==
    [r EXCEPT !.phase = "Training", !.pc = "train", !.wait = 0, !.best = Inf,
              !.best_weights = None, !.stop_training = FALSE]

\* One epoch's single training step (steps_per_epoch = 1): the optimizer
\* replaces the weights by g.
train_step(r, g) ==
    [r EXCEPT !.epoch = @ + 1, !.weights = g, !.pc = "validate"]

\* A plausible slip: the validation pass run as a training pass.
test_step_updating(r, d) ==
    [r EXCEPT !.val_loss = WeightedLoss(loader_va(d), PerNodeLoss(r.weights)),
              !.weights = 0, !.pc = "callback"]

\* The epoch's validation pass over validation_data.
test_step(r, d) ==
    [r EXCEPT !.val_loss = WeightedLoss(loader_va(d), PerNodeLoss(r.weights)),
              !.pc = "callback"]

\* The callbacks at the end of an epoch, then the loop's test: History records
\* val_loss; EarlyStopping updates best / wait, and with wait at patience stops
\* the training and restores best_weights.
on_epoch_end(r) ==
    LET current  == r.val_loss
        improved == monitor_op(current, r.best)
        wait     == IF improved THEN 0 ELSE r.wait + 1
        stop     == ~improved /\ ShouldStop(wait)
        phase    == IF stop THEN "EarlyStopped"
                    ELSE IF EpochLimit(r.epoch) THEN "EpochLimitReached"
                    ELSE "Training"
    IN  [r EXCEPT
           !.history = Append(@, current),
           !.snapshots = Append(@, r.weights),
           !.best = IF improved THEN current ELSE @,
           !.best_weights = IF improved THEN r.weights ELSE @,
           !.wait = wait,
           !.stop_training = stop,
           !.weights = IF stop THEN r.best_weights ELSE @,
           !.phase = phase,
           !.pc = IF phase = "Training" THEN "train" ELSE "-"]

\* A plausible slip: the evaluation placed inside the training loop.
CanEvaluateEarly(r) ==
    \/ r.phase \in {"EarlyStopped", "EpochLimitReached"}
    \/ r.phase = "Training" /\ r.pc = "train" /\ r.epoch > 0

\* model.evaluate is the statement after model.fit: it runs once fit returned.
CanEvaluate(r) == r.phase \in {"EarlyStopped", "EpochLimitReached"}

\* eval_results = model.evaluate(loader_te.tf(), ...): [loss, acc].
evaluate(r, d) ==
    [r EXCEPT !.phase = "Evaluated", !.pc = "-",
              !.eval_results =
                  << WeightedLoss(loader_te(d), PerNodeLoss(r.weights)),
                     WeightedAcc(loader_te(d), r.weights) >>,
              !.n_eval = @ + 1]

\* ------------------------------------------------------------------ actions

Idle == UNCHANGED <<dataset, twin, dataset2, layer>>

FitBegin ==
    /\ run.phase = "Initialized"
    /\ run' = on_train_begin(run)
    /\ Idle

TrainStep ==
    /\ run.phase = "Training" /\ run.pc = "train"
    /\ \E g \in Params : run' = train_step(run, g)
    /\ Idle

ValidationCheck ==
    /\ run.phase = "Training" /\ run.pc = "validate"
    /\ run' = test_step(run, dataset)
    /\ Idle

EpochEnd ==
    /\ run.phase = "Training" /\ run.pc = "callback"
    /\ run' = on_epoch_end(run)
    /\ Idle

Evaluate ==
    /\ CanEvaluate(run)
    /\ run' = evaluate(run, dataset)
    /\ Idle

Init ==
    /\ dataset \in Datasets
    /\ \E w \in Params : run = Compiled(w)
    /\ twin = 0
    /\ dataset2 = 0
    /\ layer = 0

Next == FitBegin \/ TrainStep \/ ValidationCheck \/ EpochEnd \/ Evaluate

Spec == Init /\ [][Next]_vars

\* ------------------------------------- two runs that differ in the test mask

\* The script from its first statement on, one statement at a time.
Step(r, d, g) ==
    CASE r.phase = "Initialized" -> on_train_begin(r)
      [] r.phase = "Training" /\ r.pc = "train" -> train_step(r, g)
      [] r.phase = "Training" /\ r.pc = "validate" -> test_step(r, d)
      [] r.phase = "Training" /\ r.pc = "callback" -> on_epoch_end(r)
      [] r.phase \in {"EarlyStopped", "EpochLimitReached"} -> evaluate(r, d)
      [] OTHER -> r

\* All that model.fit hands the optimizer in a training step: the weights, the
\* optimizer's state (a function of the weights of the epochs before) and the
\* training loader's sample weights.  Features, adjacency, labels and the
\* random seed are the same in both runs.
FitInputs(r, d) == <<r.weights, r.snapshots, loader_tr(d)>>

PairIdle == UNCHANGED <<dataset, dataset2, layer>>

PairFitBegin ==
    /\ run.phase = "Initialized"
    /\ run' = on_train_begin(run)
    /\ twin' = Step(twin, dataset2, twin.weights)
    /\ PairIdle

\* The optimizer is a function of its inputs: given the same inputs it
\* produces the same weights in both runs.
PairTrainStep ==
    /\ run.phase = "Training" /\ run.pc = "train"
    /\ \E g, g2 \in Params :
          /\ FitInputs(run, dataset) = FitInputs(twin, dataset2) => g2 = g
          /\ run' = train_step(run, g)
          /\ twin' = Step(twin, dataset2, g2)
    /\ PairIdle

PairValidationCheck ==
    /\ run.phase = "Training" /\ run.pc = "validate"
    /\ run' = test_step(run, dataset)
    /\ twin' = Step(twin, dataset2, twin.weights)
    /\ PairIdle

PairEpochEnd ==
    /\ run.phase = "Training" /\ run.pc = "callback"
    /\ run' = on_epoch_end(run)
    /\ twin' = Step(twin, dataset2, twin.weights)
    /\ PairIdle

PairEvaluate ==
    /\ CanEvaluate(run)
    /\ run' = evaluate(run, dataset)
    /\ twin' = Step(twin, dataset2, twin.weights)
    /\ PairIdle

\* Two runs of the script on datasets that differ in the test mask alone,
\* from the same initial weights.
InitPair ==
    /\ dataset \in Datasets
    /\ dataset2 \in { d \in Datasets :
                        /\ d.mask_tr = dataset.mask_tr
                        /\ d.mask_va = dataset.mask_va
                        /\ d.mask_te # dataset.mask_te
                        /\ d.mask_te \in {ZeroMask,
                                          [i \in Node |-> 1 - dataset.mask_tr[i]
                                                            - dataset.mask_va[i]]} }
    /\ \E w \in Params : run = Compiled(w) /\ twin = Compiled(w)
    /\ layer = 0

NextPair ==
    PairFitBegin \/ PairTrainStep \/ PairValidationCheck \/ PairEpochEnd \/ PairEvaluate

SpecPair == InitPair /\ [][NextPair]_vars

\* ------------------------------------------------------- the ARMA layer

\* Entries of the feature matrix range over 0..MaxX, entries of the kernels
\* applied to it over 0..MaxKernel.
MaxX == 1
MaxKernel == 1

\* A two-node graph, one input feature per node, two output channels.
Vertex == {1, 2}
Channel == {1, 2}

Features == [Vertex -> 0..MaxX]

\* The propagation operators: symmetric, with self-loops.
Operators ==
    { A \in [Vertex -> [Vertex -> {0, 1}]] :
        /\ \A i \in Vertex : A[i][i] = 1
        /\ \A i, j \in Vertex : A[i][j] = A[j][i] }

\* Kernels from the one input feature, with entries in 0..MaxKernel, and
\* kernels between the output channels, with entries 0 or 1.
InKernels == [Channel -> 0..MaxKernel]
Kernels == [Channel -> [Channel -> {0, 1}]]

\* X.W for the feature column X and a kernel W from the input feature.
Project(X, W) == [i \in Vertex |-> [c \in Channel |-> X[i] * W[c]]]

\* h.W for a signal h and a kernel W between channels.
Mix(h, W) ==
    [i \in Vertex |-> [c \in Channel |-> h[i][1] * W[1][c] + h[i][2] * W[2][c]]]

\* A.h: each node's signal summed over its neighbours.
Propagate(A, h) ==
    [i \in Vertex |-> [c \in Channel |-> A[i][1] * h[1][c] + A[i][2] * h[2][c]]]

Plus(h, k) == [i \in Vertex |-> [c \in Channel |-> h[i][c] + k[i][c]]]

\* gcn_activation=None: the inner activation is the identity.
gcn_activation(h) == h

\* activation='softmax', row by row.  A row's softmax fixes the row up to a
\* shift of all its entries, and nothing more: two rows have the same
\* softmax iff they differ by a constant.  The row less its least entry
\* stands for its softmax.
activation(h) ==
    [i \in Vertex |-> [c \in Channel |->
        h[i][c] - (IF h[i][1] < h[i][2] THEN h[i][1] ELSE h[i][2])]]

\* A plausible slip: the recursion run once more than `iterations`.
RECURSIVE IterateOnceMore(_, _, _, _, _, _)
IterateOnceMore(h, t, X, A, W_1, V) ==
    IF t < 0 THEN h
    ELSE IterateOnceMore(
             gcn_activation(Plus(Propagate(A, Mix(h, W_1)), Project(X, V))),
             t - 1, X, A, W_1, V)

\* t iterations of h <- activation(A.h.W_1 + X.V).
RECURSIVE Iterate(_, _, _, _, _, _)
Iterate(h, t, X, A, W_1, V) ==
    IF t = 0 THEN h
    ELSE Iterate(gcn_activation(Plus(Propagate(A, Mix(h, W_1)), Project(X, V))),
                 t - 1, X, A, W_1, V)

\* One ARMA stack: `iterations` iterations from h_0 = activation(A.X.W_0).
ARMAStack(iterations, X, A, W_0, W_1, V) ==
    Iterate(gcn_activation(Propagate(A, Project(X, W_0))), iterations, X, A, W_1, V)

\* The mean of `order` stacks that share their kernels (share_weights=True).
RECURSIVE StackSum(_, _)
StackSum(k, h) == IF k = 1 THEN h ELSE Plus(h, StackSum(k - 1, h))

StackMean(order, h) ==
    [i \in Vertex |-> [c \in Channel |-> StackSum(order, h)[i][c] \div order]]

\* ARMAConv(channels, iterations, order, share_weights=True,
\*          activation='softmax', gcn_activation=None)([X, A])
ARMAConv(iterations, order, X, A, W_0, W_1, V) ==
    activation(StackMean(order, ARMAStack(iterations, X, A, W_0, W_1, V)))

\* A single plain graph-convolution step, activation(A.X.W).
GraphConv(X, A, W) == activation(Propagate(A, Project(X, W)))

Zero == [i \in Vertex |-> [c \in Channel |-> 0]]

\* gc_2 = ARMAConv(n_out, iterations=1, order=1, ...)([gc_2, fltr_in])
CallOutputLayer ==
    /\ ~layer.called
    /\ layer' = [layer EXCEPT
                   !.called = TRUE,
                   !.out = ARMAConv(1, 1, layer.X, layer.A,
                                    layer.W_0, layer.W_1, layer.V)]
    /\ UNCHANGED <<run, dataset, twin, dataset2>>

InitLayer ==
    /\ layer \in [X : Features, A : Operators, W_0 : InKernels, W_1 : Kernels,
                  V : InKernels, called : {FALSE}, out : {Zero}]
    /\ run = 0 /\ dataset = 0 /\ twin = 0 /\ dataset2 = 0

NextLayer == CallOutputLayer

SpecLayer == InitLayer /\ [][NextLayer]_vars

\* fit returns only when its loop ends and the script then evaluates: a
\* single-threaded run never stops half way.
FairSpec == Spec /\ WF_vars(Next)

\* ------------------------------------------------- what the claims speak of

RECURSIVE MinOf(_)
MinOf(h) ==
    IF Len(h) = 1 THEN h[1]
    ELSE LET m == MinOf(SubSeq(h, 1, Len(h) - 1))
         IN  IF h[Len(h)] < m THEN h[Len(h)] ELSE m

\* The earliest epoch whose validation loss is the least of the history.
BestEpoch(h) ==
    CHOOSE k \in 1..Len(h) :
        /\ h[k] = MinOf(h)
        /\ \A j \in 1..(k - 1) : h[j] > h[k]

LastSnapshot == run.snapshots[Len(run.snapshots)]

ValLossOf(w) == WeightedLoss(dataset.mask_va, PerNodeLoss(w))

\* C1: when the validation loss has not improved on its best value for
\* `patience` epochs in a row, training halts, exactly at epoch
\* best_epoch + patience, and the weights after the halt are those the model
\* had at the end of best_epoch; while it has improved more recently than
\* that, training has not halted on patience.
EarlyStoppingHalts ==
    /\ run.phase = "EarlyStopped" =>
          /\ run.epoch = BestEpoch(run.history) + patience
          /\ run.weights = run.snapshots[BestEpoch(run.history)]
          /\ \A k \in (BestEpoch(run.history) + 1)..run.epoch :
                 run.history[k] >= run.history[BestEpoch(run.history)]
    /\ (run.phase = "Training" /\ Len(run.history) > 0) =>
          Len(run.history) - BestEpoch(run.history) < patience
    /\ (run.phase = "EpochLimitReached") =>
          Len(run.history) - BestEpoch(run.history) < patience

\* C1's case: training halted on patience before the epoch limit, and the
\* restored weights differ from those of the last epoch run.
EarlyStoppedAndRestored ==
    /\ run.phase = "EarlyStopped"
    /\ run.epoch < epochs
    /\ run.epoch = BestEpoch(run.history) + patience
    /\ run.weights # LastSnapshot

\* C2: training leaves the Training state after at most `epochs` epochs, at
\* EarlyStopped when patience ran out, at EpochLimitReached when the last of
\* the `epochs` epochs ended without that, and no epoch is run afterwards.
TrainingTerminates ==
    /\ [](run.epoch <= epochs)
    /\ [](run.phase = "Training" /\ run.pc = "train" =>
              run.epoch < epochs /\ run.wait < patience)
    /\ [](run.phase = "EarlyStopped" => run.wait = patience)
    /\ [](run.phase = "EpochLimitReached" =>
              run.epoch = epochs /\ run.wait < patience)
    /\ [][run.phase \notin {"Initialized", "Training"} =>
              run'.epoch = run.epoch /\ Len(run'.history) = Len(run.history)]_vars
    /\ <>(run.phase \notin {"Initialized", "Training"})

\* C2's case: all `epochs` epochs ran and patience never ran out.
EpochLimitHit ==
    /\ run.phase = "EpochLimitReached"
    /\ run.epoch = epochs
    /\ Len(run.history) = epochs

Phases ==
    {"Initialized", "Training", "EarlyStopped", "EpochLimitReached", "Evaluated"}

Transitions ==
    { <<"Initialized", "Training">>,
      <<"Training", "EarlyStopped">>,
      <<"Training", "EpochLimitReached">>,
      <<"EarlyStopped", "Evaluated">>,
      <<"EpochLimitReached", "Evaluated">> }

\* C3: the run goes Initialized -> Training -> (EarlyStopped |
\* EpochLimitReached) -> Evaluated: every change of state is one of these
\* arrows, so Evaluated is entered only from EarlyStopped or
\* EpochLimitReached and no state is re-entered; the evaluation runs exactly
\* once, at the entry to Evaluated, and nothing runs after it.
StateMachineOrder ==
    /\ [](run.phase \in Phases)
    /\ [](run.n_eval = IF run.phase = "Evaluated" THEN 1 ELSE 0)
    /\ [][ /\ run'.phase # run.phase => <<run.phase, run'.phase>> \in Transitions
           /\ run'.n_eval # run.n_eval =>
                  /\ run.phase \in {"EarlyStopped", "EpochLimitReached"}
                  /\ run'.phase = "Evaluated"
                  /\ run'.epoch = run.epoch
           /\ run.phase = "Evaluated" => run' = run ]_vars

\* C3's case: the run reached Evaluated after an early stop.
EvaluatedAfterEarlyStop ==
    /\ run.phase = "Evaluated"
    /\ run.stop_training
    /\ run.n_eval = 1
    /\ run.epoch < epochs

OutsideZeroed(sw, l) == [i \in Node |-> IF sw[i] = 1 THEN l[i] ELSE 0]

OutsideRaised(sw, l) == [i \in Node |-> IF sw[i] = 1 THEN l[i] ELSE l[i] + 1]

EvaluationOnTestMask ==
    /\ [](run.phase = "Evaluated" =>
              /\ run.n_eval = 1
              /\ Len(run.eval_results) = 2
              /\ run.eval_results[1] =
                     WeightedLoss(dataset.mask_te, PerNodeLoss(run.weights))
              /\ run.eval_results[2] = WeightedAcc(dataset.mask_te, run.weights))
    /\ [](run.phase # "Evaluated" => run.eval_results = <<>>)
    /\ [][run'.n_eval # run.n_eval => run'.weights = run.weights]_vars

\* C5's case: the evaluation ran, and its loss and accuracy are those of the
\* test mask and of no other mask.
EvaluatedOnTestOnly ==
    /\ run.phase = "Evaluated"
    /\ run.eval_results[1] # WeightedLoss(dataset.mask_va, PerNodeLoss(run.weights))
    /\ run.eval_results[1] # WeightedLoss(dataset.mask_tr, PerNodeLoss(run.weights))
    /\ run.eval_results[2] # WeightedAcc(dataset.mask_va, run.weights)
    /\ run.eval_results[2] # WeightedAcc(dataset.mask_tr, run.weights)

\* C6 as stated: every step that changes the weights is a training epoch's
\* optimizer update.
OnlyOptimizerMutates ==
    [][run'.weights # run.weights => run.pc = "train"]_vars

\* C6 amended: every step that changes the weights is a training epoch's
\* optimizer update or the early stop's restore of best_weights; the
\* validation check and the evaluation change nothing.
OnlyOptimizerOrRestoreMutates ==
    [][run'.weights # run.weights =>
           \/ run.pc = "train"
           \/ /\ run.pc = "callback"
              /\ run'.phase = "EarlyStopped"
              /\ run'.weights = run.best_weights ]_vars

\* C6's case: the early stop restored weights other than the last epoch's.
RestoreChangedWeights ==
    /\ run.phase = "EarlyStopped"
    /\ run.weights = run.best_weights
    /\ run.weights # LastSnapshot

\* C7: the validation check leaves the weights as the epoch's training step
\* produced them, and the loss it reports is the validation mask's weighted
\* loss of those weights.
ValidationNoUpdate ==
    /\ [][run.pc = "validate" =>
              /\ run'.weights = run.weights
              /\ run'.val_loss = ValLossOf(run.weights)]_vars
    /\ [](run.pc = "callback" => run.val_loss = ValLossOf(run.weights))

\* C7's case: a validation check ran, and its loss is the validation mask's
\* and not the training or the test mask's.
ValidatedOnValMask ==
    /\ run.pc = "callback"
    /\ run.epoch > 1
    /\ run.val_loss # WeightedLoss(dataset.mask_tr, PerNodeLoss(run.weights))
    /\ run.val_loss # WeightedLoss(dataset.mask_te, PerNodeLoss(run.weights))

\* C10: only a strictly smaller validation loss is an improvement: after
\* every epoch the tracked best loss is the least loss of the epochs run,
\* best_weights are the weights of the earliest epoch that attained it,
\* `wait` counts the epochs since that epoch, and an early stop never comes
\* before patience + 1 epochs have completed.
StrictImprovement ==
    Len(run.history) > 0 =>
        LET b == BestEpoch(run.history)
        IN  /\ run.best = MinOf(run.history)
            /\ run.best_weights = run.snapshots[b]
            /\ run.wait = Len(run.history) - b
            /\ run.phase = "EarlyStopped" => run.epoch >= patience + 1

\* C10's case: a later epoch equalled the best loss with other weights, and
\* neither the snapshot nor the patience counter moved.
TieKeepsEarliest ==
    /\ Len(run.history) >= 2
    /\ \E k \in 2..Len(run.history) :
          /\ k > BestEpoch(run.history)
          /\ run.history[k] = run.best
          /\ run.snapshots[k] # run.best_weights
    /\ run.wait > 0

Trained(r) == [r EXCEPT !.eval_results = <<>>]

H0 == gcn_activation(Propagate(layer.A, Project(layer.X, layer.W_0)))

\* The skip term X.V adds the same to all the channels of every node.
SkipTermIsUniform ==
    \A i \in Vertex : \A c, e \in Channel :
        Project(layer.X, layer.V)[i][c] = Project(layer.X, layer.V)[i][e]

====
